---- MODULE Spec2Model ----
(***************************************************************************)
(* Model of the runner race simulation (src/src/main.rs).                  *)
(*                                                                         *)
(* f64 values are modelled in fixed point:                                 *)
(*   - a time is an integer number of 1/TimeScale seconds;                 *)
(*   - an orientation angle is given by its cosine and sine, each an       *)
(*     integer number of 1/TrigScale;                                      *)
(*   - a position is an integer number of 1/SCALE pixels, where            *)
(*     SCALE = TrigScale * TimeScale, so that v * cos * dt is exact;       *)
(*   - a velocity is an integer number of pixels per second.               *)
(* The geometry is scaled down (ALIGNED_RUNNERS, WAVE_GAP, RUNNER_COUNT);  *)
(* the other program constants keep their source values.  The pixel buffer *)
(* is kept sparse: a function from the written indices to their colour,    *)
(* every other index of 0..WIDTH*HEIGHT-1 holding BACKGROUND_COLOR.        *)
(***************************************************************************)
EXTENDS Integers, Sequences, FiniteSets, TLC

VARIABLES
    runners,        \* Race.runners: sequence of [x, y, v, t, wave_index]
    buffer,         \* main's pixel buffer (sparse)
    pc,             \* position of main / of the function under check
    elapsed_secs,   \* main's elapsed_secs, the t handed to Race::draw
    stop,           \* the stop condition main's loop has observed, if any
    orientation,    \* the orientation samples of the Race::draw of this frame
    dots,           \* the draw_dot calls of the last Race::draw, in call order
    assigned        \* the last WaveManager::assign_wave call and its result

vars == <<runners, buffer, pc, elapsed_secs, stop, orientation, dots, assigned>>

(***************************************************************************)
(* Program constants                                                       *)
(***************************************************************************)
WIDTH == 1920
HEIGHT == 1080
RUNNER_RADIUS == 1
RUNNER_START_DISTANCE == 2
T_MAX == 1000
TIME_FACTOR == 10
BACKGROUND_COLOR == 0

\* Scaled down from the source values (20000, 50 and 20).
RUNNER_COUNT == 3
ALIGNED_RUNNERS == 2
WAVE_GAP == 0

TRACK_HEIGHT == (ALIGNED_RUNNERS - 1) * RUNNER_START_DISTANCE

\* Largest runner_count handed to Race::new when it is checked on its own.
MaxRunnerCount == 4

(***************************************************************************)
(* Fixed-point representation of f64                                       *)
(***************************************************************************)
TrigScale == 5
TimeScale == 100
SCALE == TrigScale * TimeScale

\* An f64 that may be infinite: inf is -1, 0 or 1, val the finite value.
Finite(n) == [inf |-> 0, val |-> n]
INFINITY == [inf |-> 1, val |-> 0]
NEG_INFINITY == [inf |-> -1, val |-> 0]

\* a < b on such values (no NaN occurs: velocities and errors are finite).
F64Lt(a, b) ==
    IF a.inf # b.inf THEN a.inf < b.inf ELSE a.inf = 0 /\ a.val < b.val

\* a >= b
F64Ge(a, b) ==
    IF a.inf # b.inf THEN a.inf > b.inf ELSE a.inf # 0 \/ a.val >= b.val

\* `x as usize` for a position x: saturating at 0, truncating the fraction.
AsUsize(x) == IF x < 0 THEN 0 ELSE x \div SCALE

(***************************************************************************)
(* WaveManager                                                             *)
(***************************************************************************)
WaveManager_new ==
    << [v_min |-> NEG_INFINITY, v_max |-> Finite(10), color |-> 16711680],
       [v_min |-> Finite(10),   v_max |-> Finite(12), color |-> 255],
       [v_min |-> Finite(12),   v_max |-> Finite(15), color |-> 65280],
       [v_min |-> Finite(15),   v_max |-> INFINITY,   color |-> 16711935] >>

\* The test of the loop body of assign_wave.
WaveMatchesOpen(wave, speed) ==
    ~F64Ge(wave.v_min, speed) /\ F64Lt(speed, wave.v_max)

WaveMatches(wave, speed) ==
    F64Ge(speed, wave.v_min) /\ F64Lt(speed, wave.v_max)

\* The loop of assign_wave from table position i (1-based) on; the index
\* returned is 0-based as in the source.
RECURSIVE AssignLoop(_, _, _)
AssignLoop(waves, speed, i) ==
    IF i > Len(waves) THEN Len(waves) - 1
    ELSE IF WaveMatches(waves[i], speed) THEN i - 1
    ELSE AssignLoop(waves, speed, i + 1)

\* assign_wave(velocity), velocity_self_estimation_error being the sample.
assign_wave(waves, velocity, velocity_self_estimation_error) ==
    LET self_estimated_velocity == velocity + velocity_self_estimation_error
    IN  AssignLoop(waves, Finite(self_estimated_velocity), 1)

get_wave(waves, index) == waves[index + 1]

(***************************************************************************)
(* Race::new                                                               *)
(***************************************************************************)
\* The first loop: runners at (0, 0), t = 0, classified by perceived speed.
NewRunners(waves, runner_count, velocities, errors) ==
    [i \in 1..runner_count |->
        [x |-> 0, y |-> 0, t |-> 0, v |-> velocities[i],
         wave_index |-> assign_wave(waves, velocities[i], errors[i])]]

\* What follows the inner loop for one wave: move to the next wave's column.
WaveEndSameColumn(next_i, next_j) ==
    [next_i |-> 0, next_j |-> next_j]

WaveEnd(next_i, next_j) ==
    IF next_i # 0
    THEN [next_i |-> 0, next_j |-> next_j + WAVE_GAP + 1]
    ELSE [next_i |-> next_i, next_j |-> next_j + WAVE_GAP]

\* The inner loop over the runners, from runner k on, for wave wave_index.
RECURSIVE LayoutWave(_, _, _, _, _)
LayoutWave(rs, wave_index, k, next_i, next_j) ==
    IF k > Len(rs) THEN [runners |-> rs, next_i |-> next_i, next_j |-> next_j]
    ELSE IF rs[k].wave_index = wave_index
    THEN LET next_x == next_j * RUNNER_START_DISTANCE * SCALE
             next_y == next_i * RUNNER_START_DISTANCE * SCALE
             placed == [rs EXCEPT ![k].x = next_x, ![k].y = next_y]
         IN  IF next_i = ALIGNED_RUNNERS
             THEN LayoutWave(placed, wave_index, k + 1, 0, next_j + 1)
             ELSE LayoutWave(placed, wave_index, k + 1, next_i + 1, next_j)
    ELSE LayoutWave(rs, wave_index, k + 1, next_i, next_j)

\* The outer loop over the waves, from wave wave_index on.
RECURSIVE Layout(_, _, _, _, _)
Layout(waves, rs, wave_index, next_i, next_j) ==
    IF wave_index >= Len(waves) THEN rs
    ELSE LET w == LayoutWave(rs, wave_index, 1, next_i, next_j)
             e == WaveEnd(w.next_i, w.next_j)
         IN  Layout(waves, w.runners, wave_index + 1, e.next_i, e.next_j)

Race_new(runner_count, velocities, errors) ==
    LET wave_manager == WaveManager_new
    IN  Layout(wave_manager,
               NewRunners(wave_manager, runner_count, velocities, errors),
               0, 0, 0)

(***************************************************************************)
(* draw_dot                                                                *)
(***************************************************************************)
\* The colour the buffer holds at an index.
Pixel(buf, index) ==
    IF index \in DOMAIN buf THEN buf[index] ELSE BACKGROUND_COLOR

\* buffer[index] = color
WritePixel(buf, index, color) ==
    LET written == IF color = BACKGROUND_COLOR
                   THEN DOMAIN buf \ {index}
                   ELSE DOMAIN buf \cup {index}
    IN  [p \in written |-> IF p = index THEN color ELSE buf[p]]

\* buffer.fill(BACKGROUND_COLOR)
ClearedBuffer == [p \in {} |-> BACKGROUND_COLOR]

x_mod(x) == AsUsize(x) % WIDTH

y_mod_track(x, y) ==
    AsUsize(y) + 2 * TRACK_HEIGHT * (AsUsize(x) \div WIDTH)

y_mod(x, y) ==
    AsUsize(y)
      + 2 * ALIGNED_RUNNERS * RUNNER_START_DISTANCE * (AsUsize(x) \div WIDTH)

draw_dot_keep(x, y, buf, color) ==
    IF x_mod(x) < WIDTH /\ y_mod(x, y) < HEIGHT
          /\ Pixel(buf, y_mod(x, y) * WIDTH + x_mod(x)) = BACKGROUND_COLOR
    THEN WritePixel(buf, y_mod(x, y) * WIDTH + x_mod(x), color)
    ELSE buf

draw_dot(x, y, buf, color) ==
    IF x_mod(x) < WIDTH /\ y_mod(x, y) < HEIGHT
    THEN WritePixel(buf, y_mod(x, y) * WIDTH + x_mod(x), color)
    ELSE buf

(***************************************************************************)
(* Runner::draw                                                            *)
(***************************************************************************)
\* The values of `-(RUNNER_RADIUS as isize + 1)..RUNNER_RADIUS as isize`,
\* in order (the end of a Rust range is excluded).
OffsetRange ==
    [k \in 1..(2 * RUNNER_RADIUS + 1) |-> k - RUNNER_RADIUS - 2]

\* The (dx, dy) of the two nested loops, dx outermost, in order.
LoopOffsets ==
    LET m == Len(OffsetRange)
    IN  [k \in 1..(m * m) |->
            <<OffsetRange[((k - 1) \div m) + 1], OffsetRange[((k - 1) % m) + 1]>>]

InDisk(o) == o[1] * o[1] + o[2] * o[2] <= RUNNER_RADIUS * RUNNER_RADIUS

\* The offsets for which the loops call draw_dot, in call order.
DrawOffsets == SelectSeq(LoopOffsets, InDisk)

\* Lines 193-203: the position after the displacement and the reflection.
Reflect(y) ==
    IF y < 0 THEN -y
    ELSE IF y > TRACK_HEIGHT * SCALE THEN 2 * TRACK_HEIGHT * SCALE - y
    ELSE y

Moved(runner, t, o) ==
    LET dt == t - runner.t
    IN  [runner EXCEPT !.x = runner.x + runner.v * o.cos * dt,
                       !.y = Reflect(runner.y + runner.v * o.sin * dt)]

\* The draw_dot calls of one runner, in call order.
RunnerDots(waves, runner) ==
    [k \in 1..Len(DrawOffsets) |->
        [x |-> runner.x + DrawOffsets[k][1] * SCALE,
         y |-> runner.y + DrawOffsets[k][2] * SCALE,
         color |-> get_wave(waves, runner.wave_index).color]]

RECURSIVE ApplyDots(_, _, _)
ApplyDots(calls, k, buf) ==
    IF k > Len(calls) THEN buf
    ELSE ApplyDots(calls, k + 1,
                   draw_dot(calls[k].x, calls[k].y, buf, calls[k].color))

\* Runner::draw(t, buffer, wave_manager, rng), o being the sampled orientation.
Runner_draw(runner, t, buf, waves, o) ==
    LET moved == Moved(runner, t, o)
        calls == RunnerDots(waves, moved)
    IN  [runner |-> [moved EXCEPT !.t = t],
         buffer |-> ApplyDots(calls, 1, buf),
         dots |-> calls]

(***************************************************************************)
(* Race::draw                                                              *)
(***************************************************************************)
\* The loop of Race::draw over the runners order[k], order[k+1], ...
RECURSIVE DrawLoop(_, _, _, _, _, _, _)
DrawLoop(order, k, rs, t, os, buf, calls) ==
    IF k > Len(order) THEN [runners |-> rs, buffer |-> buf, dots |-> calls]
    ELSE LET i == order[k]
             d == Runner_draw(rs[i], t, buf, WaveManager_new, os[i])
         IN  DrawLoop(order, k + 1, [rs EXCEPT ![i] = d.runner], t, os,
                      d.buffer, calls \o d.dots)

\* Race::draw with the runners visited in the given order.
Race_draw_in(order, rs, t, os, buf) == DrawLoop(order, 1, rs, t, os, buf, <<>>)

\* self.runners.iter_mut(): the runners in vector order.
IterOrder(rs) == [k \in 1..Len(rs) |-> k]

Race_draw(rs, t, os, buf) == Race_draw_in(IterOrder(rs), rs, t, os, buf)

(***************************************************************************)
(* Inputs                                                                  *)
(***************************************************************************)
\* Velocity samples (pixels per second) and self-estimation errors.
Velocities == {13}
LayoutVelocities == {11, 14}
Errors == {-3, -1, 1}

\* Orientation samples: (cos, sin) in 1/TrigScale.
Orientations ==
    { [cos |-> 4, sin |-> -3], [cos |-> 0, sin |-> 5] }

\* Readings of start_time.elapsed(), in 1/TimeScale seconds.
WallTimes == {0, 1, (T_MAX * TimeScale) \div TIME_FACTOR}

(***************************************************************************)
(* main                                                                    *)
(***************************************************************************)
Blank ==
    /\ runners = <<>>
    /\ buffer = ClearedBuffer
    /\ elapsed_secs = 0
    /\ stop = "none"
    /\ orientation = <<>>
    /\ dots = <<>>
    /\ assigned = <<>>

Init == Blank /\ pc = "start"

\* let mut race = Race::new(RUNNER_COUNT);
MainNew ==
    /\ pc = "start"
    /\ \E velocities \in [1..RUNNER_COUNT -> Velocities],
          errors \in [1..RUNNER_COUNT -> Errors] :
          runners' = Race_new(RUNNER_COUNT, velocities, errors)
    /\ pc' = "loop"
    /\ UNCHANGED <<buffer, elapsed_secs, stop, orientation, dots, assigned>>

StopAfter(elapsed) == elapsed > T_MAX * TimeScale

\* if elapsed_secs >= T_MAX { break; }
StopAtOrAfter(elapsed) == elapsed >= T_MAX * TimeScale

\* The while condition, is_open and is_key_down being what the window
\* answers, and the elapsed-time test at the head of the body.
LoopHead ==
    /\ pc = "loop"
    /\ \E is_open \in BOOLEAN, is_key_down \in BOOLEAN :
          IF is_open /\ ~is_key_down
          THEN \E wall \in WallTimes :
                  /\ wall * TIME_FACTOR >= elapsed_secs
                  /\ elapsed_secs' = wall * TIME_FACTOR
                  /\ IF StopAtOrAfter(wall * TIME_FACTOR)
                     THEN pc' = "done" /\ stop' = "t_max"
                     ELSE pc' = "clear" /\ stop' = "none"
          ELSE /\ pc' = "done"
               /\ stop' = IF is_open THEN "escape" ELSE "closed"
               /\ UNCHANGED elapsed_secs
    /\ UNCHANGED <<runners, buffer, orientation, dots, assigned>>

\* buffer.fill(BACKGROUND_COLOR)
Clear ==
    /\ pc = "clear"
    /\ buffer' = ClearedBuffer
    /\ pc' = "draw"
    /\ UNCHANGED <<runners, elapsed_secs, stop, orientation, dots, assigned>>

\* race.draw(elapsed_secs, &mut buffer)
Draw ==
    /\ pc = "draw"
    /\ \E os \in [1..Len(runners) -> Orientations] :
          LET d == Race_draw(runners, elapsed_secs, os, buffer)
          IN  /\ runners' = d.runners
              /\ buffer' = d.buffer
              /\ dots' = d.dots
              /\ orientation' = os
    /\ pc' = "present"
    /\ UNCHANGED <<elapsed_secs, stop, assigned>>

\* window.update_with_buffer(..).expect(..): the frame is shown, or the
\* update fails and main panics.  The samples of the frame are gone.
Present ==
    /\ pc = "present"
    /\ \E shown \in BOOLEAN : pc' = IF shown THEN "loop" ELSE "panic"
    /\ orientation' = <<>>
    /\ UNCHANGED <<runners, buffer, elapsed_secs, stop, dots, assigned>>

Next == MainNew \/ LoopHead \/ Clear \/ Draw \/ Present

Spec == Init /\ [][Next]_vars

(***************************************************************************)
(* Race::new on its own: any runner_count up to MaxRunnerCount, any        *)
(* velocity and error samples.                                             *)
(***************************************************************************)
InitNew == Blank /\ pc = "new"

NewRace ==
    /\ pc = "new"
    /\ \E runner_count \in 0..MaxRunnerCount :
          \E velocities \in [1..runner_count -> LayoutVelocities],
             errors \in [1..runner_count -> Errors] :
             runners' = Race_new(runner_count, velocities, errors)
    /\ pc' = "laid"
    /\ UNCHANGED <<buffer, elapsed_secs, stop, orientation, dots, assigned>>

NextNew == NewRace

SpecNew == InitNew /\ [][NextNew]_vars

(***************************************************************************)
(* WaveManager::assign_wave on its own.                                    *)
(***************************************************************************)
\* Velocities around the wave bounds, a very negative and a very large one.
Speeds == (0..25) \cup {-1000000, 1000000}
SpeedErrors == -3..3

InitAssign == Blank /\ pc = "assign"

Assign ==
    /\ pc = "assign"
    /\ \E velocity \in Speeds, error \in SpeedErrors :
          assigned' = [velocity |-> velocity, error |-> error,
                       wave_index |-> assign_wave(WaveManager_new, velocity, error)]
    /\ pc' = "assigned"
    /\ UNCHANGED <<runners, buffer, elapsed_secs, stop, orientation, dots>>

NextAssign == Assign

SpecAssign == InitAssign /\ [][NextAssign]_vars

(***************************************************************************)
(* draw_dot on its own, on a cleared buffer.                               *)
(***************************************************************************)
\* Fractions of a pixel, in 1/SCALE.
Fractions == {0, 1, SCALE - 1}

\* Whole pixels: left of the buffer, around the multiples of WIDTH, and in
\* the first stripe that lies below the buffer.
StripeHeight == 2 * ALIGNED_RUNNERS * RUNNER_START_DISTANCE
DotColumns ==
    {-2, -1, 0, 1, WIDTH - 1, WIDTH, 2 * WIDTH + 1,
     ((HEIGHT \div StripeHeight) + 1) * WIDTH}
DotRows == {-1, 0, 3, HEIGHT - 1, HEIGHT}
DotXs == {c * SCALE + f : c \in DotColumns, f \in Fractions}
DotYs == {r * SCALE + f : r \in DotRows, f \in Fractions}
DotColors == {get_wave(WaveManager_new, 0).color, get_wave(WaveManager_new, 3).color}

InitDot == Blank /\ pc = "dot"

Dot ==
    /\ pc = "dot"
    /\ \E x \in DotXs, y \in DotYs, color \in DotColors :
          /\ buffer' = draw_dot(x, y, buffer, color)
          /\ dots' = << [x |-> x, y |-> y, color |-> color] >>
    /\ pc' = "dotted"
    /\ UNCHANGED <<runners, elapsed_secs, stop, orientation, assigned>>

NextDot == Dot

SpecDot == InitDot /\ [][NextDot]_vars

(***************************************************************************)
(* Properties                                                              *)
(***************************************************************************)
Positions(rs) == [i \in DOMAIN rs |-> <<rs[i].x, rs[i].y>>]
Row(runner) == runner.y \div (RUNNER_START_DISTANCE * SCALE)
Column(runner) == runner.x \div (RUNNER_START_DISTANCE * SCALE)

\* C1 (Layout collision-freedom): after Race::new, whatever the runner count
\* and the wave of each runner, no two runners share a starting (x, y).
LayoutCollisionFree ==
    pc = "laid" =>
        \A i \in DOMAIN runners : \A j \in DOMAIN runners :
            i # j => Positions(runners)[i] # Positions(runners)[j]

\* A race with two runners of one wave, no runner in the next wave, and a
\* runner in a later wave laid out behind the empty one.
LayoutCollisionFreeWitness ==
    /\ pc = "laid"
    /\ \E i \in DOMAIN runners : \E j \in DOMAIN runners : \E k \in DOMAIN runners :
          /\ i # j
          /\ runners[i].wave_index = runners[j].wave_index
          /\ runners[k].wave_index > runners[i].wave_index + 1
          /\ \A m \in DOMAIN runners :
                runners[m].wave_index # runners[i].wave_index + 1
          /\ Column(runners[k]) > Column(runners[i])

\* The half-open interval [v_min, v_max) of a wave, on integer speeds.
InInterval(wave, speed) ==
    /\ wave.v_min.inf = -1 \/ (wave.v_min.inf = 0 /\ wave.v_min.val <= speed)
    /\ wave.v_max.inf = 1 \/ (wave.v_max.inf = 0 /\ speed < wave.v_max.val)

\* C2 (Classification totality): for every finite perceived speed assign_wave
\* returns a valid index, that of the first wave whose [v_min, v_max) holds
\* the speed; so the result never is the fallback to the last wave.
ClassificationTotal ==
    pc = "assigned" =>
        LET speed == assigned.velocity + assigned.error
            index == assigned.wave_index
        IN  /\ index \in 0..(Len(WaveManager_new) - 1)
            /\ InInterval(get_wave(WaveManager_new, index), speed)
            /\ \A j \in 0..(index - 1) :
                  ~InInterval(get_wave(WaveManager_new, j), speed)

\* A perceived speed exactly on a wave's lower bound, put in that wave.
ClassificationTotalWitness ==
    /\ pc = "assigned"
    /\ assigned.velocity + assigned.error = 12
    /\ assigned.wave_index = 2

\* C3 (Zero-dt update): a Runner::draw with t equal to the runner's stored t
\* leaves the runner's x and y unchanged, whatever the orientation.
ZeroDtNoDisplacement ==
    [][pc = "draw" =>
          \A i \in DOMAIN runners :
              runners[i].t = elapsed_secs =>
                  /\ runners'[i].x = runners[i].x
                  /\ runners'[i].y = runners[i].y]_vars

\* C4 (Layout row cap): every starting cell has its row in
\* 0..ALIGNED_RUNNERS-1, so y <= TRACK_HEIGHT, and a wave fills at most
\* ALIGNED_RUNNERS cells of a column.
LayoutRowCap ==
    pc = "laid" =>
        /\ \A i \in DOMAIN runners :
              /\ Row(runners[i]) \in 0..(ALIGNED_RUNNERS - 1)
              /\ runners[i].y <= TRACK_HEIGHT * SCALE
        /\ \A i \in DOMAIN runners :
              Cardinality({j \in DOMAIN runners :
                              Column(runners[j]) = Column(runners[i])})
                  <= ALIGNED_RUNNERS

\* C5 (Reflection boundedness): a displaced y within one track height of the
\* track is stored in [0, TRACK_HEIGHT]; so, while every step has
\* |v * dt| < TRACK_HEIGHT, every y is in [0, TRACK_HEIGHT] after a draw.
ReflectionBounded ==
    [][pc = "draw" =>
          \A i \in DOMAIN runners :
              LET displaced == runners[i].y
                      + runners[i].v * orientation'[i].sin
                          * (elapsed_secs - runners[i].t)
                  inTrack == /\ 0 <= runners'[i].y
                             /\ runners'[i].y <= TRACK_HEIGHT * SCALE
              IN  /\ (/\ -(TRACK_HEIGHT * SCALE) <= displaced
                      /\ displaced <= 2 * TRACK_HEIGHT * SCALE) => inTrack
                  /\ runners[i].v * elapsed_secs < TRACK_HEIGHT * TimeScale
                        => inTrack]_vars

\* The pixel of the mathematical mapping: floor(x) mod WIDTH and
\* floor(y) + 2 * ALIGNED_RUNNERS * RUNNER_START_DISTANCE * floor(x / WIDTH).
FloorPixelX(x) == (x \div SCALE) % WIDTH
FloorPixelY(x, y) ==
    (y \div SCALE)
      + 2 * ALIGNED_RUNNERS * RUNNER_START_DISTANCE * (x \div (SCALE * WIDTH))
InBuffer(px, py) == 0 <= px /\ px < WIDTH /\ 0 <= py /\ py < HEIGHT
OnlyPixel(px, py, color) == [p \in {py * WIDTH + px} |-> color]

\* C6 (Out-of-buffer skip): draw_dot writes only the pixel its position maps
\* to, when that pixel is in the buffer; a position that maps outside
\* (negative coordinates included) leaves the buffer unmodified.
OutOfBufferSkip ==
    pc = "dotted" =>
        LET px == FloorPixelX(dots[1].x)
            py == FloorPixelY(dots[1].x, dots[1].y)
        IN  IF InBuffer(px, py) /\ dots[1].x >= 0 /\ dots[1].y >= 0
            THEN buffer = OnlyPixel(px, py, dots[1].color)
            ELSE buffer = ClearedBuffer

\* C7 (Pixel wrap monotonicity): for a non-negative position draw_dot uses
\* pixel_x = floor(x) mod WIDTH and pixel_y = floor(y) + 2 * ALIGNED_RUNNERS *
\* RUNNER_START_DISTANCE * floor(x / WIDTH): one more WIDTH of x adds exactly
\* one stripe height to pixel_y and leaves pixel_x, which is 0 at a multiple
\* of WIDTH.
PixelWrap ==
    pc = "dotted" =>
        LET x == dots[1].x
            y == dots[1].y
            px == FloorPixelX(x)
            py == FloorPixelY(x, y)
        IN  (x >= 0 /\ y >= 0) =>
                /\ x_mod(x) = px
                /\ y_mod(x, y) = py
                /\ buffer = IF py < HEIGHT
                            THEN OnlyPixel(px, py, dots[1].color)
                            ELSE ClearedBuffer
                /\ x_mod(x + WIDTH * SCALE) = px
                /\ y_mod(x + WIDTH * SCALE, y)
                      = py + 2 * ALIGNED_RUNNERS * RUNNER_START_DISTANCE
                /\ x % (WIDTH * SCALE) = 0 => x_mod(x) = 0

\* A dot drawn after x has crossed WIDTH twice, two stripes down.
PixelWrapWitness ==
    /\ pc = "dotted"
    /\ dots[1].x > 2 * WIDTH * SCALE
    /\ dots[1].x < 3 * WIDTH * SCALE
    /\ dots[1].y >= 3 * SCALE
    /\ dots[1].y < 4 * SCALE
    /\ DOMAIN buffer
          = {(3 + 2 * (2 * ALIGNED_RUNNERS * RUNNER_START_DISTANCE)) * WIDTH + 1}

\* The integer offsets of the disk of radius RUNNER_RADIUS.
Disk ==
    {o \in (-RUNNER_RADIUS..RUNNER_RADIUS) \X (-RUNNER_RADIUS..RUNNER_RADIUS) :
        o[1] * o[1] + o[2] * o[2] <= RUNNER_RADIUS * RUNNER_RADIUS}

DotAt(runner, o) ==
    [x |-> runner.x + o[1] * SCALE, y |-> runner.y + o[2] * SCALE,
     color |-> get_wave(WaveManager_new, runner.wave_index).color]

\* C8 (Rasterization footprint): a draw issues a pixel write, in the colour
\* of the runner's wave, for every offset of the disk around the runner's
\* position, and for no other offset.
FootprintIsDisk ==
    pc = "present" =>
        /\ \A i \in DOMAIN runners : \A o \in Disk :
              \E k \in DOMAIN dots : dots[k] = DotAt(runners[i], o)
        /\ \A k \in DOMAIN dots :
              \E i \in DOMAIN runners : \E o \in Disk :
                  dots[k] = DotAt(runners[i], o)

\* The orders in which n runners can be visited.
Orders(n) ==
    {order \in [1..n -> 1..n] : \A a \in 1..n : \E k \in 1..n : order[k] = a}

\* C9 (Draw-order independence): for a fixed t and fixed orientation samples
\* Race::draw yields the same runners and the same buffer for every order
\* in which the runners are visited.
DrawOrderIndependent ==
    [][pc = "draw" =>
          \A os \in {orientation'} : \A order \in Orders(Len(runners)) :
          \A d \in {Race_draw_in(order, runners, elapsed_secs, os, buffer)} :
              d.runners = runners' /\ d.buffer = buffer']_vars

\* The buffer indices the footprint of a runner is written to.
Covered(runner) ==
    {y_mod(c.x, c.y) * WIDTH + x_mod(c.x) :
        c \in {call \in {DotAt(runner, DrawOffsets[k]) : k \in DOMAIN DrawOffsets} :
                  y_mod(call.x, call.y) < HEIGHT}}

RunnerColor(runner) == get_wave(WaveManager_new, runner.wave_index).color

\* Covered for each runner of rs from runner k on, as a sequence.
RECURSIVE CoveredFrom(_, _)
CoveredFrom(rs, k) ==
    IF k > Len(rs) THEN <<>>
    ELSE <<Covered(rs[k])>> \o CoveredFrom(rs, k + 1)

\* The colour of the runner visited last among those that cover index p,
\* cov[i] being the indices runner i covers.
LastColor(order, rs, cov, p) ==
    LET ks == {k \in DOMAIN order : p \in cov[order[k]]}
    IN  IF ks = {} THEN BACKGROUND_COLOR
        ELSE RunnerColor(rs[order[CHOOSE k \in ks : \A m \in ks : m <= k]])

TwoColors(rs, cov, p) ==
    \E i \in DOMAIN rs : \E j \in DOMAIN rs :
        /\ p \in cov[i]
        /\ p \in cov[j]
        /\ RunnerColor(rs[i]) # RunnerColor(rs[j])

\* C9 as amended: in every order the runners end the same, and so does
\* every pixel that runners of two different colours do not both cover; a
\* pixel they both cover takes the colour of the one visited last.
DrawOrderLastWins ==
    [][pc = "draw" =>
          \A os \in {orientation'} : \A after \in {runners'} :
          \A shown \in {buffer'} : \A cov \in {CoveredFrom(runners', 1)} :
          \A order \in Orders(Len(runners)) :
          \A d \in {Race_draw_in(order, runners, elapsed_secs, os, buffer)} :
              /\ d.runners = after
              /\ \A p \in DOMAIN d.buffer \cup DOMAIN shown :
                    /\ Pixel(d.buffer, p) = LastColor(order, after, cov, p)
                    /\ Pixel(d.buffer, p) # Pixel(shown, p)
                          => TwoColors(after, cov, p)]_vars

\* A frame in which runners of two waves have painted the same pixel.
DrawOrderWitness ==
    /\ pc = "present"
    /\ \E p \in DOMAIN buffer :
          TwoColors(runners, CoveredFrom(runners, 1), p)

\* C10 (Frame-loop ordering): the stop conditions are evaluated at the head
\* of an iteration only; an iteration that passes them clears, draws all
\* runners at one t < T_MAX that is no earlier than the last, and presents,
\* in this order; after a stop nothing is cleared, drawn or presented.
FrameLoopOrdering ==
    [][/\ pc' = "clear" =>
             /\ pc = "loop"
             /\ stop' = "none"
             /\ elapsed_secs' >= elapsed_secs
       /\ pc' = "done" => pc = "loop" /\ stop' # "none"
       /\ pc = "clear" =>
             /\ pc' = "draw"
             /\ buffer' = ClearedBuffer
             /\ UNCHANGED <<runners, elapsed_secs>>
       /\ pc = "draw" =>
             /\ pc' = "present"
             /\ elapsed_secs < T_MAX * TimeScale
             /\ \A i \in DOMAIN runners :
                   /\ runners[i].t <= elapsed_secs
                   /\ runners'[i].t = elapsed_secs
             /\ UNCHANGED elapsed_secs
       /\ pc = "present" =>
             /\ pc' \in {"loop", "panic"}
             /\ UNCHANGED <<runners, buffer, elapsed_secs>>
       /\ pc \in {"done", "panic"} => UNCHANGED vars
       /\ buffer' # buffer => pc \in {"clear", "draw"}
       /\ runners' # runners => pc \in {"start", "draw"}]_vars

\* The loop has run a frame at a positive time and then stopped at T_MAX.
FrameLoopWitness ==
    /\ pc = "done"
    /\ stop = "t_max"
    /\ \E i \in DOMAIN runners : runners[i].t > 0

====
